---- MODULE Spec2Model ----
(***************************************************************************)
(* Rock-Paper-Scissors Stylus contracts of omarespejel/stylus-rps-contract *)
(*                                                                         *)
(* The repository holds three contract sources, each declaring its own     *)
(* #[entrypoint] struct RPS:                                               *)
(*   src/src/lib.rs       the one-shot game (commit a plain choice twice,  *)
(*                        then distribute)              -- variant "lib"   *)
(*   src/src/borrar.rs    the balance ledger (deposit, withdraw,           *)
(*                        play_game)                    -- variant "borrar"*)
(*   src/src/borrar_2.rs  the commit/reveal game with deposits and a       *)
(*                        reveal deadline; it has no distribute: the text  *)
(*                        of one is a comment (lines 167-224), not part of *)
(*                        the contract                  -- variant "borrar2"*)
(* A deployment runs exactly one of them: Init picks the variant and the   *)
(* other two contracts keep their zeroed storage.                          *)
(*                                                                         *)
(* Host semantics (Stylus/EVM): a call is atomic; a call that returns Err  *)
(* or panics is reverted (storage and transfers undone, the attached value *)
(* returned); the attached value is credited before the body runs;         *)
(* call::transfer_eth fails when the contract does not hold the amount or  *)
(* the recipient cannot receive.  U256 values stay far below 2^256 here,   *)
(* so no arithmetic wraps within the bounds.                               *)
(***************************************************************************)
EXTENDS Integers, Sequences, FiniteSets, TLC

VARIABLES variant, lib, ledger, game, origin, block, totalIn, totalOut, funded, last

vars == <<variant, lib, ledger, game, origin, block, totalIn, totalOut, funded, last>>

----------------------------------------------------------------------------
(* Bounds of the model *)

\* successful value-bearing calls explored per deployment
MaxFunded == 2
\* highest block number the host clock reaches
MaxBlock == 10
\* largest ledger balance play_game may build up in borrar.rs
MaxBalance == 3

----------------------------------------------------------------------------
(* Host: identities, values, hashes *)

ZeroAddr == "0x0"
\* callers; "C" is a contract account that cannot receive ether
Players == {"A", "B", "C"}
Rejecting == {"C"}
Addrs == Players \cup {ZeroAddr}

\* enum Choice; "panic" stands for the abort of an out-of-range conversion
RPSChoices == {"Rock", "Paper", "Scissors"}
\* raw encodings a caller sends: None, Rock, Scissors and one out of range
\* (draws, wins of either slot, the non-choice and the abort all occur)
RawChoices == {0, 1, 3, 4}

\* impl From<U256> for Choice (lib.rs) / impl From<u8> for Choice (borrar_2.rs)
ChoiceFrom(value) ==
    CASE value = 0 -> "None"
      [] value = 1 -> "Rock"
      [] value = 2 -> "Paper"
      [] value = 3 -> "Scissors"
      [] OTHER -> "panic"

\* impl From<Choice> for U256 / for u8
ChoiceTo(choice) ==
    CASE choice = "None" -> 0
      [] choice = "Rock" -> 1
      [] choice = "Paper" -> 2
      [] choice = "Scissors" -> 3

\* 256-bit words used as commitments, kept symbolic and collision free
ZeroWord == [kind |-> "zero", choice |-> 0, bf |-> 0, who |-> ZeroAddr]
Keccak(a) == [kind |-> "keccak256", choice |-> 0, bf |-> 0, who |-> a]
Hash3(c, bf, a) == [kind |-> "hash3", choice |-> c, bf |-> bf, who |-> a]
BlindingFactors == {7}

\* initialisation parameters <<bet, deposit, revealSpan>> explored by new
Configs == {<<100, 10, 5>>}
\* attached values tried against a required amount: short, exact, 40 over
ValuesFor(need) == {v \in {need - 1, need, need + 40} : v >= 0}

\* call::transfer_eth as the host decides it: `avail` is what the contract holds
TransferOk(avail, to, amount) == to \notin Rejecting /\ amount <= avail

Xfer(to, amount) == [to |-> to, amount |-> amount]

RECURSIVE SumXfers(_)
SumXfers(s) == IF s = <<>> THEN 0 ELSE Head(s).amount + SumXfers(Tail(s))

Ok(st, xfers) == [ok |-> TRUE, err |-> "", st |-> st, xfers |-> xfers]
Err(st, msg) == [ok |-> FALSE, err |-> msg, st |-> st, xfers |-> <<>>]
\* a Rust panic aborts the call; the host reverts it like an Err
Panic(st) == [ok |-> FALSE, err |-> "panic: Invalid choice", st |-> st, xfers |-> <<>>]

----------------------------------------------------------------------------
(* src/src/lib.rs : the one-shot game *)

lib_zero ==
    [player_balances |-> [a \in Players |-> 0],
     player_choices |-> <<0, 0>>,
     player_addresses |-> <<ZeroAddr, ZeroAddr>>,
     bet |-> 0, stage |-> 0, locked |-> FALSE]

lib_new(st, bet) ==
    Ok([st EXCEPT !.bet = bet, !.stage = 0, !.locked = FALSE], <<>>)

lib_lock(st) == Ok([st EXCEPT !.locked = TRUE], <<>>)

lib_unlock(st) == Ok([st EXCEPT !.locked = FALSE], <<>>)

\* `held` is the contract's balance before the call; the attached value is
\* credited before the body runs, so a refund draws on held + value
lib_commit(st, held, sender, value, choice) ==
    IF st.locked THEN Err(st, "Contract is locked")
    ELSE IF st.stage > 1 THEN Err(st, "Invalid stage for commit")
    ELSE IF value < st.bet THEN Err(st, "Insufficient funds committed")
    ELSE IF value > st.bet /\ ~TransferOk(held + value, sender, value - st.bet)
         THEN Err(st, "transfer_eth failed")
    ELSE LET player_index == st.stage
         IN Ok([st EXCEPT !.player_choices[player_index + 1] = choice,
                          !.player_addresses[player_index + 1] = sender,
                          !.stage = player_index + 1],
               IF value > st.bet THEN <<Xfer(sender, value - st.bet)>> ELSE <<>>)

\* the match of lib.rs:149-153: slot index of the winner, -1 for the `_` arm
lib_winner(player0_choice, player1_choice) ==
    IF <<player0_choice, player1_choice>> \in
          {<<"Rock", "Scissors">>, <<"Paper", "Rock">>, <<"Scissors", "Paper">>}
    THEN 0
    ELSE IF <<player0_choice, player1_choice>> \in
          {<<"Rock", "Paper">>, <<"Paper", "Scissors">>, <<"Scissors", "Rock">>}
    THEN 1
    ELSE -1

\* a distribute that carries on when the transfer to the winner fails
lib_distribute_swallow(st, held) ==
    IF st.stage # 2 THEN Err(st, "Invalid stage for distribute")
    ELSE LET player0_choice == ChoiceFrom(st.player_choices[1])
             player1_choice == ChoiceFrom(st.player_choices[2])
         IN IF player0_choice = "panic" \/ player1_choice = "panic" THEN Panic(st)
            ELSE LET winner == lib_winner(player0_choice, player1_choice)
                 IN IF winner = -1 THEN Err(st, "Draw")
                    ELSE LET winning_amount == st.bet * 2
                             winner_address == st.player_addresses[winner + 1]
                         IN IF ~TransferOk(held, winner_address, winning_amount)
                            THEN Ok([st EXCEPT !.stage = 0], <<>>)
                            ELSE Ok([st EXCEPT !.stage = 0],
                                    <<Xfer(winner_address, winning_amount)>>)

lib_distribute(st, held) ==
    IF st.stage # 2 THEN Err(st, "Invalid stage for distribute")
    ELSE LET player0_choice == ChoiceFrom(st.player_choices[1])
             player1_choice == ChoiceFrom(st.player_choices[2])
         IN IF player0_choice = "panic" \/ player1_choice = "panic" THEN Panic(st)
            ELSE LET winner == lib_winner(player0_choice, player1_choice)
                 IN IF winner = -1 THEN Err(st, "Draw")
                    ELSE LET winning_amount == st.bet * 2
                             winner_address == st.player_addresses[winner + 1]
                         IN IF ~TransferOk(held, winner_address, winning_amount)
                            THEN Err(st, "transfer_eth failed")
                            ELSE Ok([st EXCEPT !.stage = 0],
                                    <<Xfer(winner_address, winning_amount)>>)

----------------------------------------------------------------------------
(* src/src/borrar.rs : the balance ledger *)

borrar_zero == [player_balances |-> [a \in Players |-> 0]]

ChoiceNames == {"rock", "paper", "scissors", "lizard"}

borrar_fund_contract(st) == Ok(st, <<>>)

borrar_deposit(st, sender, value) ==
    Ok([st EXCEPT !.player_balances[sender] = st.player_balances[sender] + value],
       <<>>)

\* a withdraw that drops the `?` of line 50: the failed transfer is ignored
borrar_withdraw_swallow(st, held, sender) ==
    LET player_balance == st.player_balances[sender]
        zeroed == [st EXCEPT !.player_balances[sender] = 0]
    IN IF player_balance = 0 THEN Err(st, "No balance to withdraw")
       ELSE IF ~TransferOk(held, sender, player_balance)
            THEN Ok(zeroed, <<>>)
       ELSE Ok(zeroed, <<Xfer(sender, player_balance)>>)

\* `held` is the contract's balance before the call; the balance is zeroed
\* before the transfer is tried (borrar.rs:48-50), so the storage at the
\* failing return is the zeroed one
borrar_withdraw(st, held, sender) ==
    LET player_balance == st.player_balances[sender]
        zeroed == [st EXCEPT !.player_balances[sender] = 0]
    IN IF player_balance = 0 THEN Err(st, "No balance to withdraw")
       ELSE IF ~TransferOk(held, sender, player_balance)
            THEN Err(zeroed, "transfer_eth failed")
       ELSE Ok(zeroed, <<Xfer(sender, player_balance)>>)

\* the result code of borrar.rs:70-93
borrar_rslt(player_one_choice, player_two_choice) ==
    IF <<player_one_choice, player_two_choice>> \in
          {<<"rock", "rock">>, <<"paper", "paper">>, <<"scissors", "scissors">>}
    THEN 0
    ELSE IF <<player_one_choice, player_two_choice>> \in
          {<<"scissors", "paper">>, <<"rock", "scissors">>, <<"paper", "rock">>}
    THEN 1
    ELSE IF <<player_one_choice, player_two_choice>> \in
          {<<"paper", "scissors">>, <<"scissors", "rock">>, <<"rock", "paper">>}
    THEN 2
    ELSE 3

\* the returned U256 is carried in the result's `ret` field
borrar_play_game(st, sender, player_one_choice, player_two_choice, game_stake) ==
    LET balance == st.player_balances[sender]
        rslt == borrar_rslt(player_one_choice, player_two_choice)
    IN IF balance < game_stake
       THEN Err(st, "Not enough funds to place bet") @@ [ret |-> -1]
       ELSE Ok(CASE rslt = 1 -> [st EXCEPT !.player_balances[sender] = balance + game_stake]
                 [] rslt = 2 -> [st EXCEPT !.player_balances[sender] = balance - game_stake]
                 [] OTHER -> st,
               <<>>) @@ [ret |-> rslt]

----------------------------------------------------------------------------
(* src/src/borrar_2.rs : the commit/reveal game *)

\* stage numbers, borrar_2.rs:67,118,120,159,161
FirstCommit == 0
SecondCommit == 1
FirstReveal == 2
SecondReveal == 3
Distribute == 4

borrar2_zero ==
    [player_balances |-> [a \in Players |-> 0],
     player_addresses |-> <<ZeroAddr, ZeroAddr>>,
     player_commitments |-> <<ZeroWord, ZeroWord>>,
     player_choices |-> <<0, 0>>,
     bet |-> 0, deposit |-> 0, revealSpan |-> 0, revealDeadline |-> 0,
     stage |-> 0, locked |-> FALSE]

borrar2_new(st, bet, deposit, revealSpan) ==
    Ok([st EXCEPT !.bet = bet, !.deposit = deposit, !.revealSpan = revealSpan,
                  !.stage = FirstCommit, !.locked = FALSE], <<>>)

borrar2_lock(st) == Ok([st EXCEPT !.locked = TRUE], <<>>)

\* player1, player2 are <<address, commitment, choice>>
borrar2_unlock(st, stage, player1, player2) ==
    Ok([st EXCEPT !.locked = FALSE, !.stage = stage,
                  !.player_addresses = <<player1[1], player2[1]>>,
                  !.player_commitments = <<player1[2], player2[2]>>,
                  !.player_choices = <<player1[3], player2[3]>>], <<>>)

borrar2_commit(st, held, sender, value, commitment) ==
    IF st.locked THEN Err(st, "Contract is locked")
    ELSE IF st.stage # FirstCommit /\ st.stage # SecondCommit
         THEN Err(st, "Invalid stage for commit")
    ELSE LET player_index == IF st.stage = FirstCommit THEN 0 ELSE 1
             commit_amount == st.bet + st.deposit
         IN IF value < commit_amount THEN Err(st, "Insufficient funds committed")
            ELSE IF value > commit_amount
                    /\ ~TransferOk(held + value, sender, value - commit_amount)
                 THEN Err(st, "transfer_eth failed")
            ELSE Ok([st EXCEPT !.player_addresses[player_index + 1] = sender,
                               !.player_commitments[player_index + 1] = commitment,
                               !.player_choices[player_index + 1] = 0,
                               !.stage = IF st.stage = FirstCommit
                                         THEN SecondCommit ELSE FirstReveal],
                    IF value > commit_amount
                    THEN <<Xfer(sender, value - commit_amount)>> ELSE <<>>)

\* the check of borrar_2.rs:151: the stored word must be keccak256(sender);
\* neither the choice nor the blinding factor enters it
borrar2_hash_ok(sender, choice, blinding_factor, commit_choice) ==
    Keccak(sender) = commit_choice

\* a reveal that stores the choice before it checks the commitment
borrar2_reveal_store_first(st, sender, number, choice, blinding_factor) ==
    IF st.locked THEN Err(st, "Contract is locked")
    ELSE IF st.stage # FirstReveal /\ st.stage # SecondReveal
         THEN Err(st, "Invalid stage for reveal")
    ELSE IF ChoiceFrom(choice) = "panic" THEN Panic(st)
    ELSE IF ChoiceFrom(choice) \notin RPSChoices THEN Err(st, "Invalid choice")
    ELSE IF st.player_addresses[1] # sender /\ st.player_addresses[2] # sender
         THEN Err(st, "Unknown player")
    ELSE LET player_index == IF st.player_addresses[1] = sender THEN 0 ELSE 1
             commit_choice == st.player_commitments[player_index + 1]
             stored == [st EXCEPT !.player_choices[player_index + 1] =
                                      ChoiceTo(ChoiceFrom(choice))]
         IN IF ~borrar2_hash_ok(sender, choice, blinding_factor, commit_choice)
            THEN Err(stored, "Invalid hash")
            ELSE Ok(IF st.stage = FirstReveal
                    THEN [stored EXCEPT !.revealDeadline = number + st.revealSpan,
                                        !.stage = SecondReveal]
                    ELSE [stored EXCEPT !.stage = Distribute],
                    <<>>)

borrar2_reveal(st, sender, number, choice, blinding_factor) ==
    IF st.locked THEN Err(st, "Contract is locked")
    ELSE IF st.stage # FirstReveal /\ st.stage # SecondReveal
         THEN Err(st, "Invalid stage for reveal")
    ELSE IF ChoiceFrom(choice) = "panic" THEN Panic(st)
    ELSE IF ChoiceFrom(choice) \notin RPSChoices THEN Err(st, "Invalid choice")
    ELSE IF st.player_addresses[1] # sender /\ st.player_addresses[2] # sender
         THEN Err(st, "Unknown player")
    ELSE LET player_index == IF st.player_addresses[1] = sender THEN 0 ELSE 1
             commit_choice == st.player_commitments[player_index + 1]
         IN IF ~borrar2_hash_ok(sender, choice, blinding_factor, commit_choice)
            THEN Err(st, "Invalid hash")
            ELSE Ok(IF st.stage = FirstReveal
                    THEN [st EXCEPT !.player_choices[player_index + 1] =
                                        ChoiceTo(ChoiceFrom(choice)),
                                    !.revealDeadline = number + st.revealSpan,
                                    !.stage = SecondReveal]
                    ELSE [st EXCEPT !.player_choices[player_index + 1] =
                                        ChoiceTo(ChoiceFrom(choice)),
                                    !.stage = Distribute],
                    <<>>)

----------------------------------------------------------------------------
(* The deployment: state, calls, host clock *)

Variants == {"lib", "borrar", "borrar2"}

Held == totalIn - totalOut

\* what the chain records of a call that went through: who called what with
\* which value, and the transfers it made
Call(op, sender, value, res) ==
    [op |-> op, sender |-> sender, value |-> value, xfers |-> res.xfers]

\* the storage after a call: what the body wrote if it returned Ok, the
\* storage before the call if it returned Err or aborted (the call reverts)
Committed(res, st) == IF res.ok THEN res.st ELSE st

\* the host's part of every call: commit the result, or revert the call, which
\* then leaves no trace (the caller alone sees res.err)
Host(op, sender, value, res) ==
    /\ (value > 0 /\ res.ok) => funded < MaxFunded
    /\ funded' = IF value > 0 /\ res.ok THEN funded + 1 ELSE funded
    /\ last' = IF res.ok THEN Call(op, sender, value, res) ELSE last
    /\ totalIn' = IF res.ok THEN totalIn + value ELSE totalIn
    /\ totalOut' = IF res.ok THEN totalOut + SumXfers(res.xfers) ELSE totalOut
    /\ UNCHANGED <<variant, block>>

Init ==
    /\ variant \in Variants
    /\ lib = lib_zero
    /\ ledger = borrar_zero
    /\ game = borrar2_zero
    /\ origin = <<"empty", "empty">>
    /\ block = 0
    /\ totalIn = 0
    /\ totalOut = 0
    /\ funded = 0
    /\ last = [op |-> "deploy", sender |-> ZeroAddr, value |-> 0, xfers |-> <<>>]

(* calls of src/src/lib.rs *)

\* bets handed to new (storage starts with bet = 0)
LibBets == {1, 100}

LibNew ==
    /\ variant = "lib"
    /\ \E bet \in LibBets :
          LET res == lib_new(lib, bet)
          IN /\ lib' = res.st
             /\ Host("new", "anyone", 0, res)
    /\ UNCHANGED <<ledger, game, origin>>

LibLock ==
    /\ variant = "lib"
    /\ LET res == lib_lock(lib)
       IN /\ lib' = res.st
          /\ Host("lock", "anyone", 0, res)
    /\ UNCHANGED <<ledger, game, origin>>

LibUnlock ==
    /\ variant = "lib"
    /\ LET res == lib_unlock(lib)
       IN /\ lib' = res.st
          /\ Host("unlock", "anyone", 0, res)
    /\ UNCHANGED <<ledger, game, origin>>

LibCommit ==
    /\ variant = "lib"
    /\ \E sender \in Players, value \in ValuesFor(lib.bet), choice \in RawChoices :
          LET res == lib_commit(lib, Held, sender, value, choice)
          IN /\ lib' = Committed(res, lib)
             /\ Host("commit", sender, value, res)
    /\ UNCHANGED <<ledger, game, origin>>

LibDistribute ==
    /\ variant = "lib"
    /\ LET res == lib_distribute(lib, Held)
       IN /\ lib' = Committed(res, lib)
          /\ Host("distribute", "anyone", 0, res)
    /\ UNCHANGED <<ledger, game, origin>>

(* calls of src/src/borrar.rs *)

Stakes == 0 .. 2

BorrarFundContract ==
    /\ variant = "borrar"
    /\ \E sender \in Players, value \in Stakes :
          LET res == borrar_fund_contract(ledger)
          IN /\ ledger' = res.st
             /\ Host("fund_contract", sender, value, res)
    /\ UNCHANGED <<lib, game, origin>>

BorrarDeposit ==
    /\ variant = "borrar"
    /\ \E sender \in Players, value \in Stakes :
          LET res == borrar_deposit(ledger, sender, value)
          IN /\ res.st.player_balances[sender] <= MaxBalance
             /\ ledger' = res.st
             /\ Host("deposit", sender, value, res)
    /\ UNCHANGED <<lib, game, origin>>

BorrarWithdraw ==
    /\ variant = "borrar"
    /\ \E sender \in Players :
          LET res == borrar_withdraw(ledger, Held, sender)
          IN /\ ledger' = Committed(res, ledger)
             /\ Host("withdraw", sender, 0, res)
    /\ UNCHANGED <<lib, game, origin>>

BorrarPlayGame ==
    /\ variant = "borrar"
    /\ \E sender \in Players, c1 \in ChoiceNames, c2 \in ChoiceNames, game_stake \in Stakes :
          LET res == borrar_play_game(ledger, sender, c1, c2, game_stake)
          IN /\ res.st.player_balances[sender] <= MaxBalance
             /\ ledger' = Committed(res, ledger)
             /\ Host("play_game", sender, 0, res)
    /\ UNCHANGED <<lib, game, origin>>

(* calls of src/src/borrar_2.rs *)

\* words a caller commits: the one reveal accepts, and hashes binding a choice
CommitmentsOf(sender) ==
    {Keccak(sender)} \cup {Hash3(1, bf, sender) : bf \in BlindingFactors}

\* <<stage, player1, player2>> handed to unlock, each player an
\* <<address, commitment, choice>>: a decided round in stage Distribute,
\* one holding an out-of-range choice, and a stage past the five of the
\* protocol
Snapshots ==
    {<<Distribute, <<"A", Keccak("A"), 1>>, <<"B", Keccak("B"), 3>> >>,
     <<Distribute, <<"A", Keccak("A"), 4>>, <<"B", Keccak("B"), 1>> >>,
     <<5, <<ZeroAddr, ZeroWord, 0>>, <<ZeroAddr, ZeroWord, 0>> >>}

Borrar2New ==
    /\ variant = "borrar2"
    /\ \E cfg \in Configs :
          LET res == borrar2_new(game, cfg[1], cfg[2], cfg[3])
          IN /\ game' = res.st
             /\ Host("new", "anyone", 0, res)
    /\ UNCHANGED <<lib, ledger, origin>>

Borrar2Lock ==
    /\ variant = "borrar2"
    /\ LET res == borrar2_lock(game)
       IN /\ game' = res.st
          /\ Host("lock", "anyone", 0, res)
    /\ UNCHANGED <<lib, ledger, origin>>

Borrar2Unlock ==
    /\ variant = "borrar2"
    /\ \E snapshot \in Snapshots :
          LET res == borrar2_unlock(game, snapshot[1], snapshot[2], snapshot[3])
          IN /\ game' = res.st
             /\ Host("unlock", "anyone", 0, res)
    /\ origin' = <<"import", "import">>
    /\ UNCHANGED <<lib, ledger>>

Borrar2Commit ==
    /\ variant = "borrar2"
    /\ \E sender \in Players, value \in ValuesFor(game.bet + game.deposit) :
        \E commitment \in CommitmentsOf(sender) :
          LET res == borrar2_commit(game, Held, sender, value, commitment)
          IN /\ game' = Committed(res, game)
             /\ origin' = IF res.ok
                           THEN [origin EXCEPT ![game.stage + 1] = "commit"]
                           ELSE origin
             /\ Host("commit", sender, value, res)
    /\ UNCHANGED <<lib, ledger>>

Borrar2Reveal ==
    /\ variant = "borrar2"
    /\ \E sender \in Players, choice \in RawChoices, blinding_factor \in BlindingFactors :
          LET res == borrar2_reveal(game, sender, block, choice, blinding_factor)
              idx == IF game.player_addresses[1] = sender THEN 1 ELSE 2
          IN /\ game' = Committed(res, game)
             /\ origin' = IF res.ok /\ origin[idx] = "commit"
                           THEN [origin EXCEPT ![idx] = "reveal"]
                           ELSE origin
             /\ Host("reveal", sender, 0, res)
    /\ UNCHANGED <<lib, ledger>>

\* the host clock: block::number() grows between calls, here five blocks at
\* a time, so that a deadline is seen before it, at it and after it
Tick ==
    /\ variant = "borrar2"
    /\ block + 5 <= MaxBlock
    /\ block' = block + 5
    /\ UNCHANGED <<variant, lib, ledger, game, origin, totalIn, totalOut, funded, last>>

Next ==
    \/ LibNew \/ LibLock \/ LibUnlock \/ LibCommit \/ LibDistribute
    \/ BorrarFundContract \/ BorrarDeposit \/ BorrarWithdraw \/ BorrarPlayGame
    \/ Borrar2New \/ Borrar2Lock \/ Borrar2Unlock \/ Borrar2Commit
    \/ Borrar2Reveal \/ Tick

Spec == Init /\ [][Next]_vars

----------------------------------------------------------------------------
(* Properties *)

\* a call went through in this step (the clock alone did not move)
CallStep(op) ==
    /\ last'.op = op
    /\ <<lib, ledger, game, origin, totalIn, totalOut, funded, last>>' #
       <<lib, ledger, game, origin, totalIn, totalOut, funded, last>>

\* transfers of a positive amount
RECURSIVE Positive(_)
Positive(s) ==
    IF s = <<>> THEN <<>>
    ELSE IF Head(s).amount > 0 THEN <<Head(s)>> \o Positive(Tail(s))
    ELSE Positive(Tail(s))

\* the fixed cycle: a beats b
Beats(a, b) ==
    <<a, b>> \in {<<"Rock", "Scissors">>, <<"Scissors", "Paper">>, <<"Paper", "Rock">>}

\* both slots of the commit/reveal game were filled by commit and then
\* revealed by their players
BothRevealed ==
    variant = "borrar2" /\ game.stage = Distribute /\ origin = <<"reveal", "reveal">>

\* a contract balance that covers any transfer a call orders: a body run with
\* it shows the transfers the code asks the host for
Covering == 2 * lib.bet + MaxBalance

Borrar2Results ==
    {borrar2_new(game, cfg[1], cfg[2], cfg[3]) : cfg \in Configs}
    \cup {borrar2_lock(game)}
    \cup {borrar2_unlock(game, s[1], s[2], s[3]) : s \in Snapshots}
    \cup UNION {UNION {{borrar2_commit(game, Held, sender, value, commitment) :
                          commitment \in CommitmentsOf(sender)} :
                       value \in ValuesFor(game.bet + game.deposit)} :
                sender \in Players}
    \cup {borrar2_reveal(game, x[1], block, x[2], x[3]) :
            x \in Players \X RawChoices \X BlindingFactors}

\* C2: after both players committed and revealed and one choice beats the
\* other, the round is paid out with exactly 2*bet + deposit to the winner
\* and exactly deposit to the loser, and nothing else.  In borrar_2.rs some
\* call must make these transfers; in lib.rs, which has no deposit, a
\* distribute that goes through pays 2*bet to the winner and nothing else.
C2_DecidedPayout ==
    /\ (BothRevealed /\ game.bet + game.deposit > 0) =>
          LET c0 == ChoiceFrom(game.player_choices[1])
              c1 == ChoiceFrom(game.player_choices[2])
              w == IF Beats(c0, c1) THEN 1 ELSE 2
              win == Xfer(game.player_addresses[w], 2 * game.bet + game.deposit)
              lose == Xfer(game.player_addresses[3 - w], game.deposit)
          IN (Beats(c0, c1) \/ Beats(c1, c0)) =>
               \E res \in Borrar2Results :
                  /\ res.ok
                  /\ res.xfers \in {Positive(<<win, lose>>), Positive(<<lose, win>>)}
    /\ (variant = "lib" /\ lib.stage = 2) =>
          LET c0 == ChoiceFrom(lib.player_choices[1])
              c1 == ChoiceFrom(lib.player_choices[2])
              w == IF Beats(c0, c1) THEN 1 ELSE 2
              res == lib_distribute(lib, Held)
          IN ((Beats(c0, c1) \/ Beats(c1, c0)) /\ res.ok) =>
               Positive(res.xfers) =
                  Positive(<<Xfer(lib.player_addresses[w], 2 * lib.bet)>>)

\* the round of the scenario: bet 100, deposit 10, reveal window 5, A
\* committed and revealed Rock, B committed and revealed Scissors
C3_Scenario ==
    /\ BothRevealed
    /\ game.bet = 100 /\ game.deposit = 10 /\ game.revealSpan = 5
    /\ game.player_addresses = <<"A", "B">>
    /\ game.player_choices = <<1, 3>>

\* C3: in the round of the scenario a call (distribute) pays A exactly 210
\* and B exactly 0 and leaves the stage at FirstCommit.
C3_ScenarioPayout ==
    C3_Scenario =>
      \E res \in Borrar2Results :
         /\ res.ok
         /\ res.xfers = <<Xfer("A", 210)>>
         /\ res.st.stage = FirstCommit

\* a draw between revealed choices
SameChoice(choices) ==
    /\ ChoiceFrom(choices[1]) \in RPSChoices
    /\ ChoiceFrom(choices[1]) = ChoiceFrom(choices[2])

\* C4: when both players hold the same non-None choice, distribute succeeds,
\* returns bet + deposit to each of the two players (bet in lib.rs, which has
\* no deposit) and resets the stage to FirstCommit.
C4_DrawPaysBoth ==
    /\ (variant = "lib" /\ lib.stage = 2 /\ SameChoice(lib.player_choices)) =>
          LET res == lib_distribute(lib, Held)
          IN /\ res.ok
             /\ Positive(res.xfers) =
                   Positive(<<Xfer(lib.player_addresses[1], lib.bet),
                              Xfer(lib.player_addresses[2], lib.bet)>>)
             /\ res.st.stage = 0
    /\ (BothRevealed /\ SameChoice(game.player_choices)
           /\ game.bet + game.deposit > 0) =>
          \E res \in Borrar2Results :
             /\ res.ok
             /\ res.xfers =
                   <<Xfer(game.player_addresses[1], game.bet + game.deposit),
                     Xfer(game.player_addresses[2], game.bet + game.deposit)>>
             /\ res.st.stage = FirstCommit

\* C5: no reachable state strands the stakes.  Stated as what the claim
\* needs of every state holding both stakes, for every pair of committed
\* choices: the round can move on towards its payout.  In lib.rs the only
\* paying call after the second commit is distribute, so it must be able to
\* go through; in borrar_2.rs a player must be able to reveal while reveals
\* are due, and once the stage is Distribute some call must pay out.
C5_NoStrandedStakes ==
    /\ (variant = "lib" /\ lib.stage = 2 /\ lib.bet > 0
           /\ ChoiceFrom(lib.player_choices[1]) \in RPSChoices
           /\ ChoiceFrom(lib.player_choices[2]) \in RPSChoices) =>
          lib_distribute(lib, Held).ok
    /\ (variant = "borrar2" /\ ~game.locked /\ game.bet + game.deposit > 0
           /\ origin \in {"commit", "reveal"} \X {"commit", "reveal"}) =>
          /\ game.stage \in {FirstReveal, SecondReveal} =>
                \E sender \in Players, choice \in RawChoices, bf \in BlindingFactors :
                   borrar2_reveal(game, sender, block, choice, bf).ok
          /\ game.stage = Distribute =>
                \E res \in Borrar2Results : res.ok /\ SumXfers(res.xfers) > 0

\* C6: a commit with value v >= bet + deposit refunds exactly
\* v - (bet + deposit) to its sender and records the rest, bet + deposit, in
\* the sender's ledger balance (bet in lib.rs, which has no deposit).
C6_CommitRecorded ==
    [][ CallStep("commit") =>
          LET need == IF variant = "lib" THEN lib.bet ELSE game.bet + game.deposit
              before == IF variant = "lib" THEN lib.player_balances
                        ELSE game.player_balances
              after == IF variant = "lib" THEN lib'.player_balances
                       ELSE game'.player_balances
          IN /\ last'.value >= need
             /\ Positive(last'.xfers) =
                   Positive(<<Xfer(last'.sender, last'.value - need)>>)
             /\ after[last'.sender] - before[last'.sender] =
                   last'.value - SumXfers(last'.xfers)
      ]_vars

\* C7: reveal(choice, blindingFactor) by a slotted player goes through only
\* if hash(choice, blindingFactor, caller) is that player's stored
\* commitment; any other pair fails with the invalid-commitment error and
\* leaves the revealed choice None.
C7_RevealBound ==
    variant = "borrar2" =>
      \A sender \in Players, choice \in {1, 2, 3}, bf \in BlindingFactors :
        LET res == borrar2_reveal(game, sender, block, choice, bf)
            slot == IF game.player_addresses[1] = sender THEN 1 ELSE 2
            slotted == sender \in {game.player_addresses[1], game.player_addresses[2]}
            matches == Hash3(choice, bf, sender) = game.player_commitments[slot]
        IN /\ (res.ok => slotted /\ matches)
           /\ (slotted /\ ~matches /\ ~game.locked
                  /\ game.stage \in {FirstReveal, SecondReveal}) =>
                 /\ ~res.ok
                 /\ res.err = "Invalid hash"

\* C8: between the first and the second commit the contract state is the
\* same whichever of Rock/Paper/Scissors the first player chose: two first
\* commits that differ only in the choice leave the same storage.  (In
\* borrar_2.rs the word passed to commit is the caller's own; the body never
\* sees the choice.)
C8_ChoiceHidden ==
    (variant = "lib" /\ lib.stage = 0) =>
      \A sender \in Players, value \in ValuesFor(lib.bet), c1 \in {1, 2, 3}, c2 \in {1, 2, 3} :
        lib_commit(lib, Held, sender, value, c1) = lib_commit(lib, Held, sender, value, c2)

\* the lock flag of the deployed contract (borrar.rs has none)
Locked ==
    CASE variant = "lib" -> lib.locked
      [] variant = "borrar2" -> game.locked
      [] OTHER -> FALSE

\* C9: while locked is true, commit, reveal and distribute all fail.  (Of
\* borrar_2.rs the calls that exist are commit and reveal.)
C9_LockedBlocksAll ==
    Locked =>
      /\ variant = "lib" =>
            /\ ~lib_distribute(lib, Held).ok
            /\ \A sender \in Players, value \in ValuesFor(lib.bet), choice \in RawChoices :
                  ~lib_commit(lib, Held, sender, value, choice).ok
      /\ variant = "borrar2" =>
            /\ \A sender \in Players, choice \in RawChoices, bf \in BlindingFactors :
                  ~borrar2_reveal(game, sender, block, choice, bf).ok
            /\ \A sender \in Players, value \in ValuesFor(game.bet + game.deposit) :
                  \A commitment \in CommitmentsOf(sender) :
                    ~borrar2_commit(game, Held, sender, value, commitment).ok

\* the stage of the deployed game
StageOf == IF variant = "lib" THEN lib.stage ELSE game.stage

\* C10: the stage moves only one step forward, and goes back to FirstCommit
\* only by a distribute that went through; no other call (new and unlock
\* included) sets it backwards or skips a stage.
C10_StageOrder ==
    [][ StageOf' # StageOf =>
          \/ StageOf' = StageOf + 1
          \/ StageOf' = 0 /\ CallStep("distribute")
      ]_vars

\* a call that fails hands back the storage as its body left it, and no transfers
Untouched(res, st) == ~res.ok => (res.st = st /\ res.xfers = <<>>)

\* C11: every call that returns an error (wrong stage, locked, value
\* below the required amount, unknown player, invalid choice, invalid
\* commitment, failed refund transfer) has written nothing when it returns:
\* stage, both slots, revealDeadline and the balances are as before the call
\* and no funds have moved.
C11_ErrorLeavesState ==
    /\ variant = "lib" =>
          /\ Untouched(lib_distribute(lib, Held), lib)
          /\ \A sender \in Players, value \in ValuesFor(lib.bet), choice \in RawChoices :
                Untouched(lib_commit(lib, Held, sender, value, choice), lib)
    /\ variant = "borrar2" =>
          /\ \A sender \in Players, choice \in RawChoices, bf \in BlindingFactors :
                Untouched(borrar2_reveal(game, sender, block, choice, bf), game)
          /\ \A sender \in Players, value \in ValuesFor(game.bet + game.deposit) :
                \A commitment \in CommitmentsOf(sender) :
                  Untouched(borrar2_commit(game, Held, sender, value, commitment), game)

\* after the first reveal, with the deadline set, a slotted player's reveal
\* fails on the commitment, a commit fails on the stage and an outsider's
\* reveal fails as unknown
C11_Witness ==
    /\ variant = "borrar2"
    /\ game.stage = SecondReveal
    /\ game.revealDeadline > 0
    /\ origin \in {<<"reveal", "commit">>, <<"commit", "reveal">>}
    /\ \E sender \in Players :
          borrar2_reveal(game, sender, block, 1, 7).err = "Invalid hash"
    /\ \E sender \in Players :
          borrar2_reveal(game, sender, block, 1, 7).err = "Unknown player"
    /\ borrar2_commit(game, Held, "A", 110, Keccak("A")).err = "Invalid stage for commit"

\* C12: in stage SecondCommit a commit from the identity that occupies
\* slot 0 is rejected, and so whenever both slots have been filled by commits
\* the two slot addresses are different.
C12_DistinctPlayers ==
    /\ (variant = "lib" /\ lib.stage = 1) =>
          \A value \in ValuesFor(lib.bet), choice \in RawChoices :
            ~lib_commit(lib, Held, lib.player_addresses[1], value, choice).ok
    /\ (variant = "lib" /\ lib.stage = 2) =>
          lib.player_addresses[1] # lib.player_addresses[2]
    /\ (variant = "borrar2" /\ game.stage = SecondCommit /\ origin[1] = "commit"
           /\ ~game.locked) =>
          \A value \in ValuesFor(game.bet + game.deposit) :
            \A commitment \in CommitmentsOf(game.player_addresses[1]) :
              ~borrar2_commit(game, Held, game.player_addresses[1], value, commitment).ok
    /\ (variant = "borrar2"
           /\ origin \in {"commit", "reveal"} \X {"commit", "reveal"}) =>
          game.player_addresses[1] # game.player_addresses[2]

\* exactly one of the two committed players has revealed
OneRevealed ==
    /\ variant = "borrar2"
    /\ game.stage = SecondReveal
    /\ origin \in {<<"reveal", "commit">>, <<"commit", "reveal">>}

\* C13: after the first reveal, with the other player silent, once the
\* block height has passed revealDeadline the round can be resolved by
\* anyone: a call pays the revealer 2*bet + deposit and the non-revealer
\* nothing.  (Before the deadline no such call goes through.)
C13_ForfeitAfterDeadline ==
    (OneRevealed /\ game.bet + game.deposit > 0) =>
       LET r == IF origin[1] = "reveal" THEN 1 ELSE 2
           forfeit == <<Xfer(game.player_addresses[r], 2 * game.bet + game.deposit)>>
           paid == \E res \in Borrar2Results : res.ok /\ res.xfers = forfeit
       IN /\ block > game.revealDeadline => paid
          /\ block <= game.revealDeadline => ~paid

\* the transfer of lib.rs distribute to the winner of the stored choices
LibPayout ==
    LET w == lib_winner(ChoiceFrom(lib.player_choices[1]),
                        ChoiceFrom(lib.player_choices[2]))
    IN Xfer(lib.player_addresses[IF w = -1 THEN 1 ELSE w + 1], 2 * lib.bet)

\* C14: distribute is all-or-nothing: when its payout cannot be transferred
\* the call fails, having paid nobody and cleared nothing, so that the same
\* call can be made again; a distribute that goes through has made the
\* payout in full.
C14_DistributeAtomic ==
    variant = "lib" =>
      LET res == lib_distribute(lib, Held)
      IN /\ ~res.ok => (res.st = lib /\ res.xfers = <<>>)
         /\ res.ok => (res.xfers = <<LibPayout>> /\ res.st.stage = 0)
         /\ (lib.stage = 2 /\ ~TransferOk(Held, LibPayout.to, LibPayout.amount)) =>
               ~res.ok

\* a decided round whose winner cannot be paid: distribute fails at the
\* transfer
C14_Witness ==
    /\ variant = "lib"
    /\ lib.stage = 2
    /\ lib.bet > 0
    /\ lib_distribute(lib, Held).err = "transfer_eth failed"

\* C15: lock and unlock are idempotent and touch only the locked flag: a
\* second lock (unlock) leaves the state the first one produced, and neither
\* call changes stage, slots, commitments, choices, bet, deposit or balances.
C15_LockTouchesFlagOnly ==
    [][ /\ (CallStep("lock") \/ CallStep("unlock")) =>
              /\ variant = "lib" => lib' = [lib EXCEPT !.locked = (last'.op = "lock")]
              /\ variant = "borrar2" =>
                    game' = [game EXCEPT !.locked = (last'.op = "lock")]
              /\ totalIn' = totalIn /\ totalOut' = totalOut
        /\ lib_lock(lib_lock(lib).st) = lib_lock(lib)
        /\ lib_unlock(lib_unlock(lib).st) = lib_unlock(lib)
        /\ borrar2_lock(borrar2_lock(game).st) = borrar2_lock(game)
        /\ \A s \in Snapshots :
              borrar2_unlock(borrar2_unlock(game, s[1], s[2], s[3]).st, s[1], s[2], s[3])
                 = borrar2_unlock(game, s[1], s[2], s[3])
      ]_vars

\* C16: the second reveal of a round comes from the player who has not yet
\* revealed: a reveal by the player who already revealed fails, and whenever
\* a round of two commits by different players has reached Distribute both
\* slots hold a revealed choice other than None.
C16_SecondRevealOther ==
    /\ (OneRevealed /\ game.player_addresses[1] # game.player_addresses[2]) =>
          LET r == IF origin[1] = "reveal" THEN 1 ELSE 2
          IN \A choice \in RawChoices, bf \in BlindingFactors :
               ~borrar2_reveal(game, game.player_addresses[r], block, choice, bf).ok
    /\ (variant = "borrar2" /\ game.stage = Distribute
           /\ game.player_addresses[1] # game.player_addresses[2]
           /\ origin \in {"commit", "reveal"} \X {"commit", "reveal"}) =>
          /\ ChoiceFrom(game.player_choices[1]) \in RPSChoices
          /\ ChoiceFrom(game.player_choices[2]) \in RPSChoices

\* C17: a choice value outside Rock/Paper/Scissors is refused with an error
\* by the call that supplies it, never by an abort: no such call succeeds,
\* every stored choice is one of None/Rock/Paper/Scissors, and distribute
\* (lib.rs) never aborts on an invalid choice.
C17_InvalidChoiceRejected ==
    /\ variant = "lib" =>
          /\ \A i \in 1 .. 2 : lib.player_choices[i] \in 0 .. 3
          /\ lib_distribute(lib, Held).err # Panic(lib).err
          /\ \A sender \in Players, value \in ValuesFor(lib.bet) :
                \A choice \in RawChoices \ {1, 2, 3} :
                  LET res == lib_commit(lib, Held, sender, value, choice)
                  IN ~res.ok /\ res.err # Panic(lib).err
    /\ (variant = "borrar2" /\ "import" \notin {origin[1], origin[2]}) =>
          /\ \A i \in 1 .. 2 : game.player_choices[i] \in 0 .. 3
          /\ \A sender \in Players, bf \in BlindingFactors :
                \A choice \in RawChoices \ {1, 2, 3} :
                  LET res == borrar2_reveal(game, sender, block, choice, bf)
                  IN ~res.ok /\ res.err # Panic(game).err

\* C18: revealDeadline is zero whenever the stage is FirstCommit,
\* SecondCommit or FirstReveal, and the first reveal sets it to the current
\* block height plus the reveal window.
C18_DeadlineZeroOutsideReveal ==
    [][ variant = "borrar2" =>
          /\ game'.stage \in {FirstCommit, SecondCommit, FirstReveal} =>
                game'.revealDeadline = 0
          /\ (CallStep("reveal") /\ game.stage = FirstReveal) =>
                game'.revealDeadline = block + game.revealSpan
      ]_vars

\* C19: the whole-state overwrite (unlock with a stage and two player
\* tuples) is accepted only while locked is true and only for a snapshot
\* whose stage is one of the five stages; so the stage is within
\* FirstCommit .. Distribute in every reachable state.
C19_ImportValidated ==
    variant = "borrar2" =>
      /\ game.stage \in FirstCommit .. Distribute
      /\ \A s \in Snapshots :
            (~game.locked \/ s[1] \notin FirstCommit .. Distribute) =>
               ~borrar2_unlock(game, s[1], s[2], s[3]).ok

\* C20: the outcome function of the deployed contract follows the fixed cycle
\* on every pair of Rock/Paper/Scissors: equal choices are a draw, the first
\* player wins exactly on (Rock,Scissors), (Paper,Rock), (Scissors,Paper),
\* the second exactly on the mirrored pairs, swapping the choices swaps the
\* winner; and a pair containing a non-choice gets none of the three verdicts
\* a pair of revealed choices gets.  The verdicts are the winner index of
\* lib.rs (-1 for its "Draw" arm) and the result code of borrar.rs.
C20_OutcomeCycle ==
    LET Name(c) == CASE c = "Rock" -> "rock" [] c = "Paper" -> "paper"
                     [] c = "Scissors" -> "scissors" [] OTHER -> "lizard"
        w(a, b) == lib_winner(a, b)
        r(a, b) == borrar_rslt(Name(a), Name(b))
    IN \A a \in RPSChoices \cup {"None"}, b \in RPSChoices \cup {"None"} :
         /\ variant = "lib" =>
               /\ (a \in RPSChoices /\ b \in RPSChoices) =>
                     /\ (a = b) <=> (w(a, b) = -1)
                     /\ Beats(a, b) <=> (w(a, b) = 0)
                     /\ Beats(b, a) <=> (w(a, b) = 1)
                     /\ (w(a, b) = 0) <=> (w(b, a) = 1)
               /\ (a = "None" \/ b = "None") => w(a, b) \notin {-1, 0, 1}
         /\ variant = "borrar" =>
               /\ (a \in RPSChoices /\ b \in RPSChoices) =>
                     /\ (a = b) <=> (r(a, b) = 0)
                     /\ Beats(a, b) <=> (r(a, b) = 1)
                     /\ Beats(b, a) <=> (r(a, b) = 2)
                     /\ (r(a, b) = 1) <=> (r(b, a) = 2)
               /\ (a = "None" \/ b = "None") => r(a, b) \notin {0, 1, 2}

\* C21: ledger debits never underflow and a failed payout destroys nothing:
\* play_game with a balance below game_stake returns an error having written
\* nothing; a play_game that debits (the caller loses) takes exactly
\* game_stake; a withdraw whose transfer the host rejects returns the error,
\* so that the call reverts and every ledger balance is what it was before
\* the call; a balance goes down in a withdraw only by the amount the same
\* call transfers to its owner.  No balance is ever negative.
C21_DebitsSafe ==
    variant = "borrar" =>
      /\ \A a \in Players : ledger.player_balances[a] >= 0
      /\ \A sender \in Players, c1 \in ChoiceNames, c2 \in ChoiceNames, game_stake \in Stakes :
            LET res == borrar_play_game(ledger, sender, c1, c2, game_stake)
                after == Committed(res, ledger)
                balance == ledger.player_balances[sender]
            IN /\ balance < game_stake =>
                     (~res.ok /\ res.st = ledger /\ after = ledger)
               /\ res.ok =>
                     /\ after.player_balances[sender] >= 0
                     /\ res.ret = 2 =>
                           after.player_balances[sender] = balance - game_stake
                     /\ \A a \in Players \ {sender} :
                           after.player_balances[a] = ledger.player_balances[a]
      /\ \A sender \in Players :
            LET res == borrar_withdraw(ledger, Held, sender)
                after == Committed(res, ledger)
                balance == ledger.player_balances[sender]
                rejected == balance > 0 /\ ~TransferOk(Held, sender, balance)
            IN /\ rejected =>
                     /\ ~res.ok
                     /\ res.err = "transfer_eth failed"
                     /\ res.xfers = <<>>
                     /\ after = ledger
               /\ balance = 0 => (~res.ok /\ res.st = ledger)
               /\ after.player_balances[sender] =
                     balance - SumXfers(res.xfers)
               /\ res.ok =>
                     /\ res.xfers = <<Xfer(sender, balance)>>
                     /\ after.player_balances[sender] = 0
                     /\ \A a \in Players \ {sender} :
                           after.player_balances[a] = ledger.player_balances[a]

\* a caller with a positive ledger balance whose withdraw is rejected at the
\* transfer, after the body has zeroed the balance; another caller's play_game
\* is refused for lack of funds, and a third's stake can be debited
C21_Witness ==
    /\ variant = "borrar"
    /\ \E sender \in Players :
          LET res == borrar_withdraw(ledger, Held, sender)
          IN /\ ledger.player_balances[sender] > 0
             /\ res.err = "transfer_eth failed"
             /\ res.st.player_balances[sender] = 0
    /\ \E sender \in Players :
          borrar_play_game(ledger, sender, "rock", "paper", 2).err =
             "Not enough funds to place bet"
    /\ \E sender \in Players :
          LET res == borrar_play_game(ledger, sender, "rock", "paper", 1)
          IN res.ok /\ res.ret = 2
    /\ last.op = "play_game"

\* what the one-shot game holds for the round in progress: 0, bet or 2*bet
\* according to the stage
RoundStakes == lib.stage * lib.bet

\* C22: per-round conservation in the one-shot game: as long as bet is not
\* changed in the middle of a round, the value the contract holds is the
\* stakes of the round in progress (0, bet or 2*bet according to the stage),
\* and a distribute that goes through pays out exactly 2*bet, what that
\* round's two commits retained.
C22_RoundConservation ==
    [][ (/\ variant = "lib"
         /\ Held = RoundStakes
         /\ ~(lib.stage # 0 /\ lib'.bet # lib.bet)) =>
           /\ Held' = RoundStakes'
           /\ CallStep("distribute") => SumXfers(last'.xfers) = 2 * lib.bet
      ]_vars

====
